---- MODULE Spec2Model ----
(***************************************************************************)
(* Model of the Oura ingestion pipeline: Controller.py (command line and   *)
(* controller), Ingestor.py (ingestor and the two backend adapters) and    *)
(* utils.py (whitelist loader, uploads, PID discovery).                    *)
(*                                                                         *)
(* Python strings that the code inspects character by character (file      *)
(* names, whitelist lines, prompt answers, column types, the S3 path) are  *)
(* sequences of one-character strings.  Column names, which the code only  *)
(* compares for equality, are plain strings.  An optional value (None or a *)
(* string) is a record [none, s].                                          *)
(***************************************************************************)
EXTENDS Integers, Sequences, FiniteSets, TLC

\* ------------------------------------------------------------------ bounds
\* Most participant folders a root directory holds.
MaxFolders == 2
\* Most files a participant folder holds.
MaxFiles == 2

\* ------------------------------------------------------------- characters
LowerSeq == << "a","b","c","d","e","f","g","h","i","j","k","l","m",
               "n","o","p","q","r","s","t","u","v","w","x","y","z" >>
UpperSeq == << "A","B","C","D","E","F","G","H","I","J","K","L","M",
               "N","O","P","Q","R","S","T","U","V","W","X","Y","Z" >>
DigitSeq == << "0","1","2","3","4","5","6","7","8","9" >>
Range(s) == { s[i] : i \in DOMAIN s }
LowerChars == Range(LowerSeq)
UpperChars == Range(UpperSeq)
DigitChars == Range(DigitSeq)
\* str.strip() with no argument removes these (the ones the model uses).
SpaceChars == { " ", "\n", "\t" }

\* The one element of a set of one element: The({ e(x) : x \in { v } }) is
\* e(v), with v worked out once.
The(S) == CHOOSE x \in S : TRUE

None == [none |-> TRUE, s |-> << >>]
Some(s) == [none |-> FALSE, s |-> s]

\* str.lower(), one character.
LowerChar(c) ==
    IF c \in UpperChars
    THEN LowerSeq[CHOOSE i \in DOMAIN UpperSeq : UpperSeq[i] = c]
    ELSE c
\* str.lower()
Lower(s) == [i \in DOMAIN s |-> LowerChar(s[i])]

\* str.strip(): drop leading and trailing whitespace.
Strip(s) ==
    LET keep == { i \in DOMAIN s : s[i] \notin SpaceChars } IN
    IF keep = {} THEN << >>
    ELSE LET lo == CHOOSE i \in keep : \A j \in keep : i <= j
             hi == CHOOSE i \in keep : \A j \in keep : j <= i
         IN  SubSeq(s, lo, hi)

\* str.replace(a, b) for one-character a and b.
Replace(s, a, b) == [i \in DOMAIN s |-> IF s[i] = a THEN b ELSE s[i]]

\* `sub in s` for Python strings.
Contains(s, sub) ==
    \E i \in 1..(Len(s) - Len(sub) + 1) : SubSeq(s, i, i + Len(sub) - 1) = sub

DigitVal(c) == (CHOOSE i \in DOMAIN DigitSeq : DigitSeq[i] = c) - 1

\* int(s) for a string of decimal digits: leading zeros are not significant.
RECURSIVE StrToInt(_)
StrToInt(s) ==
    IF s = << >> THEN 0
    ELSE 10 * StrToInt(SubSeq(s, 1, Len(s) - 1)) + DigitVal(s[Len(s)])

\* str(n) for a non-negative integer: the canonical decimal form.
RECURSIVE IntToStr(_)
IntToStr(n) ==
    IF n < 10 THEN << DigitSeq[n + 1] >>
    ELSE IntToStr(n \div 10) \o << DigitSeq[(n % 10) + 1] >>

\* ------------------------------------------------------- Filename Router
\* exp = r"^([a-z0-9]+)_(\d+)_([a-z]+)_(\d+)\.csv$" under re.IGNORECASE.
\* None of the four groups can hold "_", so a match has exactly three of
\* them; "$" also matches just before one trailing newline.
IsAlnum(c) == c \in LowerChars \cup UpperChars \cup DigitChars
IsAlpha(c) == c \in LowerChars \cup UpperChars
IsDigit(c) == c \in DigitChars
CsvSuffixes == { << ".", "c", "s", "v" >>, << ".", "c", "s", "v", "\n" >> }

Underscores(fn) == { i \in DOMAIN fn : fn[i] = "_" }
NthUnderscore(fn, n) ==
    CHOOSE i \in Underscores(fn) :
        Cardinality({ j \in Underscores(fn) : j < i }) = n - 1
\* Where the extension starts: the first index after the third underscore
\* that is not a digit (0 when the name has digits to its end).
ExtStart(fn) ==
    LET u3 == NthUnderscore(fn, 3)
        nd == { i \in (u3 + 1)..Len(fn) : ~IsDigit(fn[i]) }
    IN  IF nd = {} THEN 0 ELSE CHOOSE i \in nd : \A j \in nd : i <= j

\* re.match(exp, filename, re.IGNORECASE) is not None
RegexMatch(fn) ==
    /\ Cardinality(Underscores(fn)) = 3
    /\ LET u1 == NthUnderscore(fn, 1)
           u2 == NthUnderscore(fn, 2)
           u3 == NthUnderscore(fn, 3)
           d  == ExtStart(fn)
       IN  /\ u1 > 1 /\ \A i \in 1..(u1 - 1) : IsAlnum(fn[i])
           /\ u2 > u1 + 1 /\ \A i \in (u1 + 1)..(u2 - 1) : IsDigit(fn[i])
           /\ u3 > u2 + 1 /\ \A i \in (u2 + 1)..(u3 - 1) : IsAlpha(fn[i])
           /\ d > u3 + 1
           /\ Lower(SubSeq(fn, d, Len(fn))) \in CsvSuffixes

\* match.group(1) and match.group(4) of a matching name.
Group1(fn) == SubSeq(fn, 1, NthUnderscore(fn, 1) - 1)
Group4(fn) == SubSeq(fn, NthUnderscore(fn, 3) + 1, ExtStart(fn) - 1)

\* Lines 141-152 of ingestor: the (table_name, pid) of a file name, or no
\* match.  pid stays the string the name holds.
ParseFilename(fn) ==
    IF RegexMatch(fn)
    THEN [match |-> TRUE, table_name |-> Replace(Group1(fn), "-", "_"),
          pid |-> Group4(fn)]
    ELSE [match |-> FALSE, table_name |-> << >>, pid |-> << >>]

\* ------------------------------------------------------ Whitelist Loader
\* A whitelist.txt is None (no such file) or the sequence of its lines as
\* readlines() gives them: each keeps its newline, so none is empty.
RECURSIVE WhitelistLines(_)
WhitelistLines(lines) ==
    IF lines = << >> THEN << >>
    ELSE LET line == Head(lines)
             rest == WhitelistLines(Tail(lines))
         IN  IF Len(line) > 0 THEN << Strip(line) >> \o rest ELSE rest

\* createTableWhitelist(): raises when the file is missing.
createTableWhitelist(wfile) ==
    IF wfile.none
    THEN [raised |-> TRUE, tables |-> << >>]
    ELSE [raised |-> FALSE, tables |-> WhitelistLines(wfile.s)]

\* A variant without the whitelist test.
InWhitelist_unchecked(table_name, tables) == TRUE

\* `table_name not in table_whitelist`, negated.
InWhitelist(table_name, tables) == \E i \in DOMAIN tables : tables[i] = table_name

\* ------------------------------------------------------------------ Batch
\* A DataFrame is a sequence of columns [name, vals]; a cell is a record:
\*   k = "nan"  a missing value (NaN, NaT, None)
\*   k = "int"  the integer n
\*   k = "str"  the string s, which is no timestamp
\*   k = "iso"  a string holding an ISO-8601 timestamp, with UTC offset of
\*              n minutes when aware, without offset otherwise
\*   k = "dt"   a parsed timestamp, aware with offset n minutes, or naive
Nan == [k |-> "nan", s |-> "", n |-> 0, aware |-> FALSE]
IntCell(n) == [k |-> "int", s |-> "", n |-> n, aware |-> FALSE]
StrCell(s) == [k |-> "str", s |-> s, n |-> 0, aware |-> FALSE]
IsoCell(aware, off) == [k |-> "iso", s |-> "", n |-> off, aware |-> aware]
DtCell(aware, off) == [k |-> "dt", s |-> "", n |-> off, aware |-> aware]

ColNames(df) == { df[i].name : i \in DOMAIN df }
HasCol(df, name) == name \in ColNames(df)
ColIndex(df, name) == CHOOSE i \in DOMAIN df : df[i].name = name
ColVals(df, name) == df[ColIndex(df, name)].vals
\* len(df): every column has one value per row.
NRows(df) == IF df = << >> THEN 0 ELSE Len(df[1].vals)

\* df[name] = vals: overwrite the column in place, or append a new one.
SetCol(df, name, vals) ==
    IF HasCol(df, name)
    THEN [df EXCEPT ![ColIndex(df, name)].vals = vals]
    ELSE Append(df, [name |-> name, vals |-> vals])
\* df[name] = scalar: the scalar in every row.
Broadcast(df, cell) == [r \in 1..NRows(df) |-> cell]

\* ------------------------------------------------------ De-identification
SensitiveColumns == { "email", "group", "name", "participant_id" }
\* default_values of removeSensitive
default_values(col) ==
    CASE col = "email" -> StrCell("foo@bar.org")
      [] col = "group" -> StrCell("g1")
      [] col = "name" -> StrCell("john doe")
      [] col = "participant_id" -> StrCell("000-0000")

\* A variant that overwrites only the first sensitive column still holding
\* values other than its placeholder.
removeSensitive_first(df) ==
    LET todo == { i \in DOMAIN df : /\ df[i].name \in SensitiveColumns
                                   /\ df[i].vals # Broadcast(df, default_values(df[i].name)) }
    IN  [i \in DOMAIN df |->
            IF i \in todo /\ \A j \in todo : i <= j
            THEN [df[i] EXCEPT !.vals = Broadcast(df, default_values(df[i].name))]
            ELSE df[i]]
\* A variant that drops the sensitive columns.
removeSensitive_drop(df) == SelectSeq(df, LAMBDA c : c.name \notin SensitiveColumns)

\* removeSensitive(df): every sensitive column that is present is
\* overwritten with its placeholder; nothing is dropped or added.
removeSensitive(df) ==
    [i \in DOMAIN df |->
        IF df[i].name \in SensitiveColumns
        THEN [df[i] EXCEPT !.vals = Broadcast(df, default_values(df[i].name))]
        ELSE df[i]]

\* Lines 165-167 of ingestor: df['pid'] = pid; astype('int64').
InjectPid(df, pid) == SetCol(df, "pid", Broadcast(df, IntCell(StrToInt(pid))))

\* ----------------------------------------------------------------- Errors
NoErr == [kind |-> "none", column |-> "", table |-> << >>]
Err(kind, column, table) == [kind |-> kind, column |-> column, table |-> table]

\* --------------------------------------------- Backend Adapter: lake-table
\* uploadToAWS(df, s3_path, database, table_name, partition_key).  wrOk is
\* whether wr.s3.to_parquet returns (TRUE) or raises (FALSE).  s3_path[-1]
\* is evaluated outside the try block: it raises IndexError on '' and
\* TypeError on None.
uploadToAWS(df, s3_path, database, table_name, partition_key, wrOk) ==
    IF s3_path.none \/ s3_path.s = << >>
    THEN [raised |-> TRUE, status |-> FALSE, err |-> NoErr,
          writes |-> 0, path |-> << >>]
    ELSE LET table_path ==
                 IF s3_path.s[Len(s3_path.s)] = "/"
                 THEN s3_path.s \o table_name \o << "/" >>
                 ELSE s3_path.s \o << "/" >> \o table_name \o << "/" >>
         IN  IF wrOk
             THEN [raised |-> FALSE, status |-> TRUE, err |-> NoErr,
                   writes |-> 1, path |-> table_path]
             ELSE [raised |-> FALSE, status |-> FALSE,
                   err |-> Err("parquet_error", "", table_name),
                   writes |-> 0, path |-> table_path]

\* _backend_athena(df, database, table_name, s3_path)
backend_athena(df, database, table_name, s3_path, wrOk) ==
    uploadToAWS(df, s3_path, database, table_name, "pid", wrOk)

\* ---------------------------------------------- Backend Adapter: warehouse
\* A variant that reports success whatever insert_df did.
uploadToClickHouse_true(df, client, table_name, insertOk) ==
    [status |-> TRUE, err |-> IF insertOk THEN NoErr ELSE Err("insert_error", "", table_name)]

\* uploadToClickHouse(df, client, table_name): insertOk is whether
\* client.insert_df returns or raises; the exception is caught.
uploadToClickHouse(df, client, table_name, insertOk) ==
    IF insertOk
    THEN [status |-> TRUE, err |-> NoErr]
    ELSE [status |-> FALSE, err |-> Err("insert_error", "", table_name)]

\* 'DateTime' in column_type or 'Date' in column_type
IsTemporalType(column_type) ==
    \/ Contains(column_type, << "D","a","t","e","T","i","m","e" >>)
    \/ Contains(column_type, << "D","a","t","e" >>)
\* 'String' in column_type
IsStringType(column_type) ==
    Contains(column_type, << "S","t","r","i","n","g" >>)

\* df[column].dtype == 'datetime64[ns]': parsed, timezone-naive timestamps.
IsNaiveDatetime(vals) ==
    /\ \E r \in DOMAIN vals : vals[r].k = "dt"
    /\ \A r \in DOMAIN vals :
           vals[r].k = "nan" \/ (vals[r].k = "dt" /\ ~vals[r].aware)

\* pd.to_datetime(column), without utc=True.  A string that is no
\* timestamp raises, and so does a column mixing values with and without
\* an offset.  Aware values of different offsets raise or come back as a
\* column of datetime objects, depending on the pandas release
\* (mixedRaises).
ToDatetimeCell(c) ==
    CASE c.k = "iso" -> DtCell(c.aware, c.n)
      [] c.k = "int" -> DtCell(FALSE, 0)
      [] OTHER -> c
to_datetime(vals, mixedRaises) ==
    LET out == [r \in DOMAIN vals |-> ToDatetimeCell(vals[r])]
        dts == { r \in DOMAIN vals : out[r].k = "dt" }
        offsets == { out[r].n : r \in { q \in dts : out[q].aware } }
        bad == \/ \E r \in DOMAIN vals : vals[r].k = "str"
               \/ \E r, q \in dts : out[r].aware /\ ~out[q].aware
               \/ (Cardinality(offsets) > 1 /\ mixedRaises)
    IN  [raised |-> bad, vals |-> IF bad THEN vals ELSE out]

\* Lines 296-311: the first non-null value decides whether the column is
\* timezone-aware; then one offset (in minutes) per row, None for nulls.
NonNull(vals) == { r \in DOMAIN vals : vals[r].k # "nan" }
SampleAware(vals) ==
    /\ NonNull(vals) # {}
    /\ LET first == CHOOSE r \in NonNull(vals) : \A q \in NonNull(vals) : r <= q
       IN  vals[first].k = "dt" /\ vals[first].aware
\* A variant that gives the offsets in hours.
tzoffset_hours(vals) ==
    [r \in DOMAIN vals |-> IF vals[r].k = "nan" THEN Nan ELSE IntCell(vals[r].n \div 60)]
tzoffset_minutes(vals) ==
    [r \in DOMAIN vals |-> IF vals[r].k = "nan" THEN Nan ELSE IntCell(vals[r].n)]

\* df[column].fillna('')
fillna(vals) == [r \in DOMAIN vals |-> IF vals[r].k = "nan" THEN StrCell("") ELSE vals[r]]

SchemaNames(schema) == { schema[i].name : i \in DOMAIN schema }

\* Lines 276-324: one pass of the loop over schema.items(), for the
\* column [name, type]: the batch after it, or the error it returns with.
ProcessColumn(df, schema, column, table_name, mixedRaises) ==
    LET column_name == column.name
        column_type == column.type
    IN
    IF ~HasCol(df, column_name)
    THEN [ok |-> FALSE, err |-> Err("column_missing", column_name, table_name), df |-> df]
    ELSE IF IsTemporalType(column_type)
    THEN LET vals == ColVals(df, column_name) IN
         The({ IF conv.raised
               THEN [ok |-> FALSE,
                     err |-> Err("datetime_conversion", column_name, table_name),
                     df |-> df]
               ELSE LET df1 == SetCol(df, column_name, conv.vals)
                    IN  [ok |-> TRUE, err |-> NoErr,
                         df |-> IF SampleAware(conv.vals)
                                   /\ "tzoffset" \in SchemaNames(schema)
                                THEN SetCol(df1, "tzoffset", tzoffset_minutes(conv.vals))
                                ELSE df1] :
               conv \in { IF ~IsNaiveDatetime(vals)
                          THEN to_datetime(vals, mixedRaises)
                          ELSE [raised |-> FALSE, vals |-> vals] } })
    ELSE IF IsStringType(column_type)
    THEN [ok |-> TRUE, err |-> NoErr,
          df |-> SetCol(df, column_name, fillna(ColVals(df, column_name)))]
    ELSE [ok |-> TRUE, err |-> NoErr, df |-> df]

\* A variant that passes over the schema columns the batch lacks.
RECURSIVE ProcessColumns_skip(_, _, _, _, _)
ProcessColumns_skip(df, schema, i, table_name, mixedRaises) ==
    IF i > Len(schema) THEN [ok |-> TRUE, err |-> NoErr, df |-> df]
    ELSE IF ~HasCol(df, schema[i].name)
    THEN ProcessColumns_skip(df, schema, i + 1, table_name, mixedRaises)
    ELSE The({ IF ~s.ok THEN s
               ELSE ProcessColumns_skip(s.df, schema, i + 1, table_name, mixedRaises) :
               s \in { ProcessColumn(df, schema, schema[i], table_name, mixedRaises) } })

\* Lines 275-324: the loop over schema.items(), from the i-th column on;
\* it returns at the first column that fails.
RECURSIVE ProcessColumns(_, _, _, _, _)
ProcessColumns(df, schema, i, table_name, mixedRaises) ==
    IF i > Len(schema) THEN [ok |-> TRUE, err |-> NoErr, df |-> df]
    ELSE The({ IF ~s.ok THEN s
               ELSE ProcessColumns(s.df, schema, i + 1, table_name, mixedRaises) :
               s \in { ProcessColumn(df, schema, schema[i], table_name, mixedRaises) } })

\* The schema cache is a function from the cached table names to schemas.
IsCached(cache, table_name) == table_name \in DOMAIN cache
\* A variant that keeps only the entry it writes.
CachePut_only(cache, table_name, schema) == (table_name :> schema)

\* clickhouse_schema_cache[table_name] = schema
CachePut(cache, table_name, schema) ==
    (table_name :> schema) @@ cache

\* A variant that never consults the cache.
NeedsDescribe_always(cache, table_name) == TRUE

\* Line 245: whether the adapter has to query the table's metadata.
NeedsDescribe(cache, table_name) == ~IsCached(cache, table_name)

\* _backend_clickhouse(df, table_name, clickhouse_client), with the cache
\* it reads and writes.  srv is what the server does during this call:
\*   srv.describe  [ok, rows]: DESCRIBE TABLE answers with rows or raises
\*   srv.insertOk  insert_df returns or raises
\*   srv.mixedRaises  see to_datetime
\* The result says what was issued: describes and inserts are 0 or 1.
backend_clickhouse(df, table_name, clickhouse_client, cache, srv) ==
    IF clickhouse_client.none
    THEN [status |-> FALSE, err |-> Err("no_client", "", table_name),
          cache |-> cache, describes |-> 0, inserts |-> 0, df |-> << >>]
    ELSE
    LET query == NeedsDescribe(cache, table_name) IN
    IF query /\ ~srv.describe.ok
    THEN [status |-> FALSE, err |-> Err("table_missing", "", table_name),
          cache |-> cache, describes |-> 1, inserts |-> 0, df |-> << >>]
    ELSE
    LET cache1 == IF query THEN CachePut(cache, table_name, srv.describe.rows)
                  ELSE cache
        schema == cache1[table_name]
        d == IF query THEN 1 ELSE 0
    IN  The({ IF ~done.ok
              THEN [status |-> FALSE, err |-> done.err, cache |-> cache1,
                    describes |-> d, inserts |-> 0, df |-> << >>]
              ELSE LET up == uploadToClickHouse(done.df, clickhouse_client, table_name,
                                                srv.insertOk)
                   IN  [status |-> up.status, err |-> up.err, cache |-> cache1,
                        describes |-> d, inserts |-> 1, df |-> done.df] :
              done \in { ProcessColumns(df, schema, 1, table_name, srv.mixedRaises) } })

\* ------------------------------------------------------------ PID discovery
\* get_pids_from_directory(directory): int(group 4) of every matching file
\* name of every sub-directory, scanned entry by entry.  An entry of the
\* root listing is [isdir, files]; a file is [name, csv].
RECURSIVE PidsOfFiles(_)
PidsOfFiles(files) ==
    IF files = << >> THEN {}
    ELSE LET m == ParseFilename(Head(files).name)
         IN  (IF m.match THEN { StrToInt(m.pid) } ELSE {}) \cup PidsOfFiles(Tail(files))
RECURSIVE PidsOfEntries(_)
PidsOfEntries(entries) ==
    IF entries = << >> THEN {}
    ELSE (IF Head(entries).isdir THEN PidsOfFiles(Head(entries).files) ELSE {})
         \cup PidsOfEntries(Tail(entries))
get_pids_from_directory(dirExists, root) ==
    IF ~dirExists THEN {} ELSE PidsOfEntries(root)

\* get_pids_from_clickhouse(client, database, table_name): res is what the
\* server answers, [ok, rows]; every failure is raised again.
get_pids_from_clickhouse(res) ==
    IF res.ok
    THEN [raised |-> FALSE, pids |-> { res.rows[r] : r \in DOMAIN res.rows }]
    ELSE [raised |-> TRUE, pids |-> {}]

\* A variant that takes no difference.
NewPids_all(dir_pids, db_pids) == dir_pids

\* Lines 90: new_pids = dir_pids - db_pids
NewPids(dir_pids, db_pids) == dir_pids \ db_pids

\* Lines 78-80: the answer to the master-table prompt, "temperature" when
\* it is blank.
T_temperature == << "t","e","m","p","e","r","a","t","u","r","e" >>
MasterTable(answer) ==
    IF Strip(answer) = << >> THEN T_temperature ELSE Strip(answer)

\* A variant that compares the answer as typed.
Declines_exact(answer) == answer \in { << "n" >>, << "n", "o" >> }

\* Lines 104-106: whether the answer to the confirmation prompt declines.
Declines(answer) ==
    LET response == Lower(Strip(answer))
    IN  response = << "n" >> \/ response = << "n", "o" >>

\* A variant that uploads whatever ENVIRONMENT says.
IsProduction_any(ENVIRONMENT) == TRUE

\* Line 182: os.getenv('ENVIRONMENT', 'PRODUCTION') == 'PRODUCTION'; the
\* variable is None when unset.
IsProduction(ENVIRONMENT) ==
    ENVIRONMENT.none \/ ENVIRONMENT.s = << "P","R","O","D","U","C","T","I","O","N" >>

\* ----------------------------------------------------------------- Inputs
\* The files a participant folder may hold: name and parsed CSV content.
T_sleep == << "s","l","e","e","p" >>
T_activity == << "a","c","t","i","v","i","t","y" >>
FileName(table, pid) ==
    table \o << "_","1","_","x","_" >> \o pid \o << ".","c","s","v" >>

\* A temperature export: two rows, timestamps with offset -04:00.
CsvTemperature ==
    << [name |-> "email", vals |-> << StrCell("a@x.org"), StrCell("a@x.org") >>],
       [name |-> "name", vals |-> << StrCell("ann"), Nan >>],
       [name |-> "timestamp", vals |-> << IsoCell(TRUE, -240), IsoCell(TRUE, -240) >>] >>
\* The same export with a corrupt timestamp in its second row.
CsvCorrupt ==
    [CsvTemperature EXCEPT ![3].vals = << IsoCell(TRUE, -240), StrCell("corrupt") >>]
\* A sleep export.
CsvSleep ==
    << [name |-> "email", vals |-> << StrCell("a@x.org") >>],
       [name |-> "score", vals |-> << IntCell(80) >>] >>

FileUniverse ==
    << [name |-> FileName(T_temperature, << "1" >>), csv |-> CsvTemperature],
       [name |-> FileName(T_temperature, << "2" >>), csv |-> CsvCorrupt],
       [name |-> FileName(T_sleep, << "1" >>), csv |-> CsvSleep],
       [name |-> << "n","o","t","e","s",".","t","x","t" >>, csv |-> << >>] >>

\* A folder lists at most MaxFiles files, in the order of FileUniverse; a
\* root lists at most MaxFolders entries, each a folder or a plain file.
RECURSIVE SortedSeq(_)
SortedSeq(S) ==
    IF S = {} THEN << >>
    ELSE LET m == CHOOSE x \in S : \A y \in S : x <= y
         IN  << m >> \o SortedSeq(S \ {m})
FolderListings(ids) ==
    { SortedSeq(S) : S \in { X \in SUBSET ids : Cardinality(X) <= MaxFiles } }
RootEntries(ids) ==
    { [isdir |-> TRUE, files |-> l] : l \in FolderListings(ids) }
    \cup { [isdir |-> FALSE, files |-> << >>] }
Roots(ids) == UNION { [1..n -> RootEntries(ids)] : n \in 0..MaxFolders }

\* Lines 141-152 for every file of FileUniverse.
Parsed == [x \in DOMAIN FileUniverse |-> ParseFilename(FileUniverse[x].name)]

\* The files of a listing of file numbers.
FilesOf(listing) == [x \in DOMAIN listing |-> FileUniverse[listing[x]]]
\* The root directory with its files in place of their numbers.
TreeOf(root) ==
    [x \in DOMAIN root |-> [isdir |-> root[x].isdir, files |-> FilesOf(root[x].files)]]

\* whitelist.txt: temperature, a blank line, activity with blanks around.
WhitelistTxt ==
    << T_temperature \o << "\n" >>,
       << "\n" >>,
       << " " >> \o T_activity \o << " ", "\n" >> >>

\* The warehouse's tables and what DESCRIBE TABLE answers for each.
Ty_String == << "S","t","r","i","n","g" >>
Ty_NullableString == << "N","u","l","l","a","b","l","e","(" >> \o Ty_String \o << ")" >>
Ty_DateTime == << "D","a","t","e","T","i","m","e" >>
Ty_UInt16 == << "U","I","n","t","1","6" >>
Ty_Int16 == << "I","n","t","1","6" >>
SchemaTemperature ==
    << [name |-> "email", type |-> Ty_String],
       [name |-> "name", type |-> Ty_NullableString],
       [name |-> "timestamp", type |-> Ty_DateTime],
       [name |-> "pid", type |-> Ty_UInt16],
       [name |-> "tzoffset", type |-> Ty_Int16] >>
Warehouse == (T_temperature :> SchemaTemperature)

\* What the server may do during one call of the warehouse adapter for a
\* table: a missing table makes DESCRIBE fail; any query may fail.
SrvChoices(table_name) ==
    { [describe |-> [ok |-> o, rows |-> IF o THEN Warehouse[table_name] ELSE << >>],
       insertOk |-> b, mixedRaises |-> m] :
        o \in (IF table_name \in DOMAIN Warehouse THEN BOOLEAN ELSE {FALSE}),
        b \in BOOLEAN, m \in BOOLEAN }

\* What SELECT DISTINCT pid may answer for the master table.
PidQueryResults(master_table) ==
    IF master_table \in DOMAIN Warehouse
    THEN { [ok |-> FALSE, rows |-> << >>], [ok |-> TRUE, rows |-> << >>],
           [ok |-> TRUE, rows |-> << 1 >>], [ok |-> TRUE, rows |-> << 1, 2 >>] }
    ELSE { [ok |-> FALSE, rows |-> << >>] }

\* Answers an operator may type at the two prompts.
MasterAnswers == { << >>, << " " >> \o T_sleep \o << "\n" >> }
\* At the confirmation prompt the operator means to accept or to decline.
ConfirmAnswers ==
    { [text |-> << >>, declines |-> FALSE],
      [text |-> << "Y" >>, declines |-> FALSE],
      [text |-> << "n" >>, declines |-> TRUE],
      [text |-> << " ", "N", "o", "\n" >>, declines |-> TRUE] }

Storages == { "athena", "clickhouse", "hdfs" }
PidArgs == { None, Some(<< "1" >>) }
S3Path == << "s","3",":","/","/","b" >>
Environments == { None, Some(<< "D","E","V" >>) }

\* Every order in which a set may be iterated.
Orders(S) ==
    { o \in [1..Cardinality(S) -> S] : \A x \in S : \E k \in DOMAIN o : o[k] = x }

\* ------------------------------------------------------------------ State
VARIABLES
    cfg,    \* what the run is started with: arguments, environment, files
    pc,     \* where the run is
    ctl,    \* controller(): its locals
    ing,    \* ingestor(): its locals during an invocation
    cache,  \* clickhouse_schema_cache
    hist    \* what the run has done so far (observed, not read by the code)
vars == << cfg, pc, ctl, ing, cache, hist >>

\* What the caller of an adapter gave it and what the backend did during the
\* call; NoInputs where that is not observed.
NoInputs ==
    [df |-> 0, client |-> FALSE, s3_path |-> None, describeOk |-> FALSE,
     insertOk |-> FALSE, wrOk |-> FALSE]
\* hist.last: the last file or adapter call and what came of it; sent is
\* the column names of the batch given to insert_df and tz its tzoffset
\* column, where observed.
NoCall ==
    [adapter |-> "none", table |-> << >>, status |-> FALSE, err |-> NoErr,
     describes |-> 0, inserts |-> 0, writes |-> 0, hit |-> FALSE,
     raised |-> FALSE, inputs |-> NoInputs, sent |-> {}, tz |-> << >>]

\* Controller.py lines 193-225: the command lines that end the run at once.
MainFatal(c) ==
    \/ (c.storage = "clickhouse" /\ ~c.creds)
    \/ (c.storage = "athena" /\ (c.s3_path.none \/ c.s3_path.s = << >>))
    \/ c.storage \notin { "athena", "clickhouse" }
    \/ (c.update /\ c.storage # "clickhouse")

\* Inputs a run never reads are left out: the S3 path without athena,
\* the credentials without clickhouse, --pid with --update, the files of
\* a root that does not exist or of a run its command line ends.
ConfigOK(c) ==
    /\ (c.storage # "athena" => c.s3_path = None)
    /\ (c.storage # "clickhouse" => c.creds)
    /\ (~c.dirExists => c.root = << >>)
    /\ (c.update => c.pid = None)
    /\ (MainFatal(c) => c.root = << >>)

InitState(c) ==
    /\ cfg = c
    /\ pc = "main"
    /\ ctl = [client |-> None, update_set |-> FALSE, new_pids |-> {}, dir_pids |-> {},
              db_pids |-> {}, order |-> << >>, successful_pids |-> {},
              failed_pids |-> {}, i |-> 1, j |-> 1]
    /\ ing = [f |-> 1, table_whitelist |-> << >>, specific_pid |-> None]
    /\ cache = << >>
    /\ hist = [inv |-> << >>, calls |-> << >>, described |-> {}, twice |-> {},
               answered |-> {}, requeried |-> {}, passed |-> 0, master |-> << >>,
               resolved |-> FALSE, failedPids |-> {}, failedFiles |-> 0, wrote |-> FALSE, warned |-> 0,
               confirm |-> "unread", ended |-> "running", last |-> NoCall]

\* The runs of a specification: those whose files are among ids and whose
\* update flag is in updates.
Configs(ids, updates) ==
    { c \in [storage : Storages, update : updates, pid : PidArgs,
             s3_path : { None, Some(S3Path) }, ENVIRONMENT : Environments,
             creds : BOOLEAN, dirExists : BOOLEAN, root : Roots(ids),
             whitelist : { None, Some(WhitelistTxt) }] : ConfigOK(c) }

\* The files of whole runs: the two temperature files and the sleep file.
RunFiles == { x \in DOMAIN FileUniverse : Parsed[x].match }

\* Runs without --update.
Init == \E c \in Configs(RunFiles, { FALSE }) : InitState(c)
\* Runs with --update.
InitUpdate == \E c \in Configs(RunFiles, { TRUE }) : InitState(c)

\* ------------------------------------------------------------ Controller
\* Controller.py lines 193-235: the command line is checked; a missing
\* whitelist.txt is logged and the run goes on.
Main ==
    /\ pc = "main"
    /\ pc' = IF MainFatal(cfg) THEN "fatal" ELSE "controller"
    /\ hist' = IF MainFatal(cfg) THEN [hist EXCEPT !.ended = "main"] ELSE hist
    /\ UNCHANGED << cfg, ctl, ing, cache >>

\* controller() lines 40-70: a root that is no directory and a whitelist
\* that cannot be read are logged; get_client raises when it cannot connect.
ControllerStart ==
    /\ pc = "controller"
    /\ \E connects \in BOOLEAN :
        IF cfg.storage = "clickhouse" /\ ~connects
        THEN /\ pc' = "fatal"
             /\ hist' = [hist EXCEPT !.ended = "connect"]
             /\ ctl' = ctl
        ELSE /\ pc' = IF cfg.update THEN "resolve" ELSE "loop"
             /\ ctl' = [ctl EXCEPT !.client =
                            IF cfg.storage = "clickhouse" THEN Some(<< >>) ELSE None]
             /\ hist' = hist
    /\ UNCHANGED << cfg, ing, cache >>

\* Lines 74-94: the master-table prompt, both PID scans and their
\* difference; with no new PID the controller returns.
ResolveUpdate ==
    /\ pc = "resolve"
    /\ \E answer \in MasterAnswers :
       \E res \in PidQueryResults(MasterTable(answer)) :
        LET db == get_pids_from_clickhouse(res)
            dir_pids == get_pids_from_directory(cfg.dirExists, TreeOf(cfg.root))
            new_pids == NewPids(dir_pids, db.pids)
        IN  IF db.raised
            THEN /\ pc' = "fatal"
                 /\ hist' = [hist EXCEPT !.ended = "master"]
                 /\ ctl' = ctl
            ELSE /\ ctl' = [ctl EXCEPT !.new_pids = new_pids, !.dir_pids = dir_pids,
                                       !.db_pids = db.pids]
                 /\ pc' = IF new_pids = {} THEN "done" ELSE "confirm"
                 /\ hist' = [hist EXCEPT
                                !.resolved = TRUE, !.master = res.rows,
                                !.ended = IF new_pids = {} THEN "uptodate" ELSE @]
    /\ UNCHANGED << cfg, ing, cache >>

\* Lines 96-111: the confirmation prompt.  order is the order in which the
\* loops of the run will iterate the set pids_to_process.
Confirm ==
    /\ pc = "confirm"
    /\ \E answer \in ConfirmAnswers :
        IF Declines(answer.text)
        THEN /\ pc' = "done"
             /\ hist' = [hist EXCEPT
                            !.confirm = IF answer.declines THEN "declined" ELSE "accepted",
                            !.ended = "declined"]
             /\ ctl' = ctl
        ELSE /\ pc' = "loop"
             /\ hist' = [hist EXCEPT
                            !.confirm = IF answer.declines THEN "declined" ELSE "accepted"]
             /\ \E order \in Orders(ctl.new_pids) :
                    ctl' = [ctl EXCEPT !.update_set = TRUE, !.order = order]
    /\ UNCHANGED << cfg, ing, cache >>

\* Line 117: os.listdir(directory) raises when the root is no directory.
ListdirFails ==
    /\ pc = "loop"
    /\ ~cfg.dirExists
    /\ pc' = "fatal"
    /\ hist' = [hist EXCEPT !.ended = "listdir"]
    /\ UNCHANGED << cfg, ctl, ing, cache >>

\* Lines 119-121: an entry that is no directory is skipped.
SkipEntry ==
    /\ pc = "loop"
    /\ cfg.dirExists
    /\ ctl.i <= Len(cfg.root)
    /\ ~cfg.root[ctl.i].isdir
    /\ ctl' = [ctl EXCEPT !.i = @ + 1]
    /\ UNCHANGED << cfg, pc, ing, cache, hist >>

\* A variant that passes the --pid argument in update mode too.
NextFilter_arg == cfg.pid

\* The PID filter of the next invocation: lines 129 and 136.
NextFilter ==
    IF cfg.update /\ ctl.update_set
    THEN Some(IntToStr(ctl.order[ctl.j]))
    ELSE cfg.pid

\* Lines 126-136 and ingestor lines 131-135: the controller calls ingestor
\* for the folder, which first loads the whitelist.
CallIngestor ==
    /\ pc = "loop"
    /\ cfg.dirExists
    /\ ctl.i <= Len(cfg.root)
    /\ cfg.root[ctl.i].isdir
    /\ LET wl == createTableWhitelist(cfg.whitelist)
       IN  /\ hist' = [hist EXCEPT
                          !.inv = Append(@, [folder |-> ctl.i, pid |-> NextFilter]),
                          !.ended = IF wl.raised THEN "whitelist" ELSE @]
           /\ pc' = IF wl.raised THEN "fatal" ELSE "ingestor"
           /\ ing' = [f |-> 1, table_whitelist |-> wl.tables, specific_pid |-> NextFilter]
    /\ UNCHANGED << cfg, ctl, cache >>

\* -------------------------------------------------------------- Ingestor
\* MODIFIERS: the registry of per-table modifiers is empty.
MODIFIERS == {}

\* A variant without the PID filter.
PassesPidFilter_any(pid, specific_pid) == TRUE

\* Line 159, negated: the file passes the PID filter.  Both are strings.
PassesPidFilter(pid, specific_pid) == specific_pid.none \/ pid = specific_pid.s

\* Lines 146-160: whether the file gets past the router, the whitelist and
\* the PID filter.
Eligible(m, table_whitelist, specific_pid) ==
        /\ m.match
        /\ InWhitelist(m.table_name, table_whitelist)
        /\ PassesPidFilter(m.pid, specific_pid)

\* Lines 163-175: the batch of a file that passed: read_csv, the pid
\* column, no modifier (the registry is empty), de-identification.
Prepare(csv, table_name, pid) == removeSensitive(InjectPid(csv, pid))

\* The file the ingestor is at.
CurrentListing == cfg.root[ctl.i].files
CurrentFile == FileUniverse[CurrentListing[ing.f]]

\* A variant that leaves the loop at the first failed file.
AfterFile_return(f, status) == IF status THEN f + 1 ELSE Len(CurrentListing) + 1

\* Lines 140 and 192-196: after a file, whatever its status, the loop goes
\* on to the next file of the listing.
AfterFile(f, status) == f + 1

\* What one file did, for hist.
Record(h, last, pid) ==
    [h EXCEPT
        !.last = last,
        !.calls = IF last.adapter \in { "athena", "clickhouse" }
                  THEN Append(@, [folder |-> ctl.i, f |-> ing.f, adapter |-> last.adapter,
                                  table |-> last.table])
                  ELSE @,
        !.described = IF last.describes = 1 THEN @ \cup { last.table } ELSE @,
        !.twice = IF last.describes = 1 /\ last.table \in h.described
                  THEN @ \cup { last.table } ELSE @,
        !.answered = IF last.describes = 1 /\ last.err.kind # "table_missing"
                     THEN @ \cup { last.table } ELSE @,
        !.requeried = IF last.describes = 1 /\ last.table \in h.answered
                      THEN @ \cup { last.table } ELSE @,
        !.wrote = @ \/ last.inserts = 1 \/ last.writes = 1,
        !.passed = @ + 1,
        !.failedFiles = IF last.status THEN @ ELSE @ + 1,
        !.failedPids = IF last.status THEN @ ELSE @ \cup { StrToInt(pid) }]

\* Lines 140-194: one pass of the loop over the files of the folder.
IngestFile ==
    /\ pc = "ingestor"
    /\ ing.f <= Len(CurrentListing)
    /\ LET m == Parsed[CurrentListing[ing.f]]
           next == [ing EXCEPT !.f = AfterFile(@, TRUE)]
       IN
       IF ~Eligible(m, ing.table_whitelist, ing.specific_pid)
       THEN /\ hist' = [hist EXCEPT
                           !.last = [NoCall EXCEPT !.adapter = "skip"],
                           !.warned = IF m.match THEN @ ELSE @ + 1]
            /\ ing' = next
            /\ UNCHANGED << pc, cache >>
       ELSE
       LET df == Prepare(CurrentFile.csv, m.table_name, m.pid) IN
       IF ~IsProduction(cfg.ENVIRONMENT)
       THEN /\ hist' = Record(hist, [NoCall EXCEPT !.adapter = "dryrun", !.status = TRUE,
                                                   !.table = m.table_name],
                              m.pid)
            /\ ing' = next
            /\ UNCHANGED << pc, cache >>
       ELSE IF cfg.storage = "athena"
       THEN \E wrOk \in BOOLEAN :
             LET r == backend_athena(df, "db", m.table_name, cfg.s3_path, wrOk) IN
             IF r.raised
             THEN /\ pc' = "fatal"
                  /\ hist' = [hist EXCEPT
                                 !.ended = "upload",
                                 !.last = [NoCall EXCEPT !.adapter = "athena",
                                                         !.table = m.table_name,
                                                         !.raised = TRUE]]
                  /\ UNCHANGED << ing, cache >>
             ELSE /\ hist' = Record(hist,
                                [NoCall EXCEPT !.adapter = "athena", !.table = m.table_name,
                                               !.status = r.status, !.err = r.err,
                                               !.writes = r.writes],
                                m.pid)
                  /\ ing' = [ing EXCEPT !.f = AfterFile(@, r.status)]
                  /\ UNCHANGED << pc, cache >>
       ELSE IF cfg.storage = "clickhouse"
       THEN \E srv \in SrvChoices(m.table_name) :
             \E r \in { backend_clickhouse(df, m.table_name, ctl.client, cache, srv) } :
             /\ hist' = Record(hist,
                           [NoCall EXCEPT !.adapter = "clickhouse", !.table = m.table_name,
                                          !.status = r.status, !.err = r.err,
                                          !.describes = r.describes, !.inserts = r.inserts,
                                          !.hit = IsCached(cache, m.table_name)],
                           m.pid)
             /\ cache' = r.cache
             /\ ing' = [ing EXCEPT !.f = AfterFile(@, r.status)]
             /\ pc' = pc
       ELSE /\ hist' = Record(hist, [NoCall EXCEPT !.adapter = "unsupported",
                                                   !.table = m.table_name], m.pid)
            /\ ing' = [ing EXCEPT !.f = AfterFile(@, FALSE)]
            /\ UNCHANGED << pc, cache >>
    /\ UNCHANGED << cfg, ctl >>

\* Line 196: what ingestor returns.
IngestorResult == TRUE

\* Lines 130-133 and the loops' next step: in update mode the PID goes to
\* successful_pids or failed_pids by the result, then the next PID of the
\* folder, or the next folder.
IngestorReturn ==
    /\ pc = "ingestor"
    /\ ing.f > Len(CurrentListing)
    /\ pc' = "loop"
    /\ IF cfg.update /\ ctl.update_set
       THEN LET new_pid == ctl.order[ctl.j]
                last == ctl.j = Len(ctl.order)
            IN  ctl' = [ctl EXCEPT
                    !.successful_pids = IF IngestorResult THEN @ \cup { new_pid } ELSE @,
                    !.failed_pids = IF IngestorResult THEN @ ELSE @ \cup { new_pid },
                    !.j = IF last THEN 1 ELSE @ + 1,
                    !.i = IF last THEN @ + 1 ELSE @]
       ELSE ctl' = [ctl EXCEPT !.i = @ + 1]
    /\ UNCHANGED << cfg, ing, cache, hist >>

\* Lines 139-159: the end-of-program summary.
Report ==
    /\ pc = "loop"
    /\ cfg.dirExists
    /\ ctl.i > Len(cfg.root)
    /\ pc' = "done"
    /\ hist' = [hist EXCEPT !.ended = "reported"]
    /\ UNCHANGED << cfg, ctl, ing, cache >>

\* A run without --update.
Next ==
    \/ Main
    \/ ControllerStart
    \/ ListdirFails
    \/ SkipEntry
    \/ CallIngestor
    \/ IngestFile
    \/ IngestorReturn
    \/ Report

Spec == Init /\ [][Next]_vars

\* The program is one thread that runs until it returns or crashes.
SpecLive == Init /\ [][Next]_vars /\ WF_vars(Next)

\* A run with --update: the loop is reached only with a new PID, which a
\* root that is no directory never gives.
\* Production runs without --update, with a whitelist.txt, over folders
\* that may also hold the file whose name does not match the pattern.
InitListings ==
    \E c \in Configs(DOMAIN FileUniverse, { FALSE }) :
        /\ IsProduction(c.ENVIRONMENT)
        /\ ~c.whitelist.none
        /\ InitState(c)
SpecListings == InitListings /\ [][Next]_vars

NextUpdate ==
    \/ Main
    \/ ControllerStart
    \/ ResolveUpdate
    \/ Confirm
    \/ SkipEntry
    \/ CallIngestor
    \/ IngestFile
    \/ IngestorReturn
    \/ Report

SpecUpdate == InitUpdate /\ [][NextUpdate]_vars

\* ------------------------------------------- The adapters called directly
\* ingestor's backends are also callable on their own: any batch, table
\* name, client and S3 path (ingestor's default s3_path is '' and its
\* default client None), one call after another in one process.
\* Most adapter calls of such a process.
MaxCalls == 2

\* A batch whose timestamps carry two different offsets.
CsvMixed ==
    [CsvTemperature EXCEPT ![3].vals = << IsoCell(TRUE, -240), IsoCell(TRUE, -300) >>]
\* A batch whose timestamps carry no offset.
CsvNaive ==
    [CsvTemperature EXCEPT ![3].vals = << IsoCell(FALSE, 0), IsoCell(FALSE, 0) >>]
\* A batch that comes with a tzoffset column of its own, and a missing
\* timestamp in its second row.
CsvWithOffset ==
    << [name |-> "timestamp", vals |-> << IsoCell(TRUE, 330), Nan >>],
       [name |-> "tzoffset", vals |-> << IntCell(0), IntCell(0) >>] >>
LibBatches ==
    << Prepare(CsvTemperature, T_temperature, << "1" >>),
       Prepare(CsvCorrupt, T_temperature, << "2" >>),
       Prepare(CsvSleep, T_sleep, << "1" >>),
       Prepare(CsvMixed, T_temperature, << "1" >>),
       Prepare(CsvNaive, T_temperature, << "1" >>),
       Prepare(CsvWithOffset, T_temperature, << "1" >>) >>
LibTables == { T_temperature, T_sleep }
LibS3Paths == { None, Some(<< >>), Some(S3Path), Some(S3Path \o << "/" >>) }
LibClients == { None, Some(<< >>) }
SchemaSleep ==
    << [name |-> "email", type |-> Ty_String],
       [name |-> "score", type |-> Ty_Int16],
       [name |-> "pid", type |-> Ty_UInt16] >>
\* A table whose tzoffset column comes before its timestamp column.
SchemaOffsetFirst ==
    << [name |-> "tzoffset", type |-> Ty_Int16],
       [name |-> "timestamp", type |-> Ty_DateTime],
       [name |-> "pid", type |-> Ty_UInt16] >>
LibSrvChoices ==
    { [describe |-> [ok |-> o, rows |-> rows], insertOk |-> b, mixedRaises |-> m] :
        o \in BOOLEAN, rows \in { SchemaTemperature, SchemaSleep, SchemaOffsetFirst },
        b \in BOOLEAN, m \in BOOLEAN }

LibConfig ==
    [storage |-> "library", update |-> FALSE, pid |-> None, s3_path |-> None,
     ENVIRONMENT |-> None, creds |-> FALSE, dirExists |-> FALSE, root |-> << >>,
     whitelist |-> None]
InitAdapters ==
    /\ InitState(LibConfig)

LibCall(last) ==
    [hist EXCEPT !.last = last,
                 !.calls = Append(@, [folder |-> 0, f |-> 0, adapter |-> last.adapter,
                                      table |-> last.table])]

\* One call of _backend_athena.
CallAthena ==
    /\ cfg = LibConfig
    /\ Len(hist.calls) < MaxCalls
    /\ \E b \in DOMAIN LibBatches, table_name \in LibTables, s3_path \in LibS3Paths,
          wrOk \in BOOLEAN :
        LET r == backend_athena(LibBatches[b], "db", table_name, s3_path, wrOk)
        IN  hist' = LibCall([NoCall EXCEPT
                        !.adapter = "athena", !.table = table_name, !.status = r.status,
                        !.err = r.err, !.writes = r.writes, !.raised = r.raised,
                        !.inputs = [NoInputs EXCEPT !.df = b, !.s3_path = s3_path,
                                                    !.wrOk = wrOk]])
    /\ UNCHANGED << cfg, pc, ctl, ing, cache >>

\* One call of _backend_clickhouse.
CallClickhouse ==
    /\ cfg = LibConfig
    /\ Len(hist.calls) < MaxCalls
    /\ \E b \in DOMAIN LibBatches, table_name \in LibTables, client \in LibClients,
          srv \in LibSrvChoices :
        LET r == backend_clickhouse(LibBatches[b], table_name, client, cache, srv)
        IN  /\ hist' = LibCall([NoCall EXCEPT
                            !.adapter = "clickhouse", !.table = table_name,
                            !.status = r.status, !.err = r.err,
                            !.describes = r.describes, !.inserts = r.inserts,
                            !.hit = IsCached(cache, table_name),
                            !.sent = IF r.inserts = 1 THEN ColNames(r.df) ELSE {},
                            !.tz = IF r.inserts = 1 /\ HasCol(r.df, "tzoffset")
                                   THEN ColVals(r.df, "tzoffset") ELSE << >>,
                            !.inputs = [NoInputs EXCEPT
                                           !.df = b, !.client = ~client.none,
                                           !.describeOk = srv.describe.ok,
                                           !.insertOk = srv.insertOk]])
            /\ cache' = r.cache
    /\ UNCHANGED << cfg, pc, ctl, ing >>

NextAdapters ==
    \/ CallAthena
    \/ CallClickhouse

SpecAdapters == InitAdapters /\ [][NextAdapters]_vars

\* ------------------------------------------- The pipeline's parts, alone
\* Each behaviour is one call of one part of the pipeline on inputs of its
\* own: the filename router with the whitelist and the PID filter, the
\* de-identification, the preparation of a file's batch, the activity
\* modifier.  pc tells which part was called; ing holds what it was given
\* and what it gave back.
MaxRows == 2
MaxOffsetHour == 5

PartsConfig == [LibConfig EXCEPT !.storage = "parts"]
InitParts == InitState(PartsConfig)

\* File names as os.listdir may give them: table names in lower and mixed
\* case and with a hyphen, PIDs with and without a leading zero,
\* extensions in both cases and a wrong one.
T_Temperature == << "T" >> \o Tail(T_temperature)
T_SLEEP == << "S","L","E","E","P" >>
T_hyphen == << "s","l","-","d" >>
RouterTables == { T_temperature, T_Temperature, T_sleep, T_SLEEP, T_hyphen }
RouterPids == { << "1" >>, << "2" >>, << "0","2" >> }
RouterNames ==
    { t \o << "_","1","_","x","_" >> \o p \o e :
        t \in RouterTables, p \in RouterPids,
        e \in { << ".","c","s","v" >>, << ".","C","S","V" >>, << ".","t","x","t" >> } }
RouterWhitelists ==
    { createTableWhitelist(Some(WhitelistTxt)).tables,
      << T_Temperature, T_sleep >>,
      << >> }
\* specific_pid: none, one the caller supplies, or the str(int) of the
\* name's own PID as the controller passes it in update mode.
RouterFilters(filename) ==
    { None } \cup { Some(p) : p \in RouterPids }
    \cup { Some(IntToStr(n)) : n \in PidsOfFiles(<< [name |-> filename] >>) }

\* Lines 141-160: what the loop does with one name.
RouteOutcome(m, table_whitelist, specific_pid) ==
    IF ~m.match THEN "warned"
    ELSE IF ~InWhitelist(m.table_name, table_whitelist) THEN "unlisted"
    ELSE IF ~PassesPidFilter(m.pid, specific_pid) THEN "filtered"
    ELSE "read"

\* One pass of the loop of ingestor up to read_csv (lines 140-163).
RouteFile ==
    /\ cfg = PartsConfig
    /\ pc = "main"
    /\ \E filename \in RouterNames, table_whitelist \in RouterWhitelists :
       \E specific_pid \in RouterFilters(filename) :
          \E m \in { ParseFilename(filename) } :
            ing' = [f |-> 1, table_whitelist |-> table_whitelist,
                    specific_pid |-> specific_pid, filename |-> filename, m |-> m,
                    outcome |-> RouteOutcome(m, table_whitelist, specific_pid)]
    /\ pc' = "routed"
    /\ UNCHANGED << cfg, ctl, cache, hist >>

\* Batches as read_csv and the pid column leave them: every choice of
\* columns out of six, in file order, with up to MaxRows rows.
PoolColumns ==
    << [name |-> "email", vals |-> [r \in 1..MaxRows |-> StrCell("a@x.org")]],
       [name |-> "score", vals |-> [r \in 1..MaxRows |-> IntCell(80 + r)]],
       [name |-> "group", vals |-> [r \in 1..MaxRows |-> StrCell("study")]],
       [name |-> "name", vals |-> [r \in 1..MaxRows |-> IF r = 1 THEN StrCell("ann") ELSE Nan]],
       [name |-> "timestamp", vals |-> [r \in 1..MaxRows |-> IsoCell(TRUE, -240)]],
       [name |-> "participant_id", vals |-> [r \in 1..MaxRows |-> IntCell(17)]] >>
PartBatches ==
    { [i \in DOMAIN cols |-> [cols[i] EXCEPT !.vals = SubSeq(@, 1, n)]] :
        cols \in { SelectSeq(PoolColumns, LAMBDA c : c.name \in S) :
                     S \in SUBSET ColNames(PoolColumns) },
        n \in 0..MaxRows }

\* removeSensitive(df), and removeSensitive of what it returned.
RemoveSensitive ==
    /\ cfg = PartsConfig
    /\ pc = "main"
    /\ \E df \in PartBatches :
          \E once \in { removeSensitive(df) } :
            ing' = [f |-> 1, table_whitelist |-> << >>, specific_pid |-> None,
                    df |-> df, once |-> once, twice |-> removeSensitive(once)]
    /\ pc' = "deidentified"
    /\ UNCHANGED << cfg, ctl, cache, hist >>

\* Lines 163-175 for one file that got past the router: the batch that
\* goes to the backend adapter.
PrepareBatch ==
    /\ cfg = PartsConfig
    /\ pc = "main"
    /\ \E csv \in PartBatches, table_name \in { T_temperature, T_sleep },
          pid \in RouterPids :
            ing' = [f |-> 1, table_whitelist |-> << >>, specific_pid |-> None,
                    df |-> csv, table_name |-> table_name, pid |-> pid,
                    sent |-> Prepare(csv, table_name, pid)]
    /\ pc' = "prepared"
    /\ UNCHANGED << cfg, ctl, cache, hist >>

\* The day_start values of an activity export.  A string value is kept as
\* its characters: a fixed date and time, then the offset if there is one.
DayPrefix ==
    << "2","0","2","4","-","0","1","-","0","1","T","0","8",":","0","0",":","0","0" >>
TwoDigits(n) == << DigitSeq[(n \div 10) + 1], DigitSeq[(n % 10) + 1] >>
OffsetText(sign, hh, mm) == << sign >> \o TwoDigits(hh) \o << ":" >> \o TwoDigits(mm)
TextCell(chars) == [k |-> "text", chars |-> chars]
\* What a row's day_start is: a timestamp with the offset sign hh:mm, one
\* without offset, a string that is no timestamp, a missing value, a number.
DayStarts ==
    [form : { "offset" }, sign : { "+", "-" }, hh : 0..MaxOffsetHour, mm : { 0, 30 }]
    \cup [form : { "naive", "malformed", "nan", "int" }, sign : { "+" }, hh : { 0 },
          mm : { 0 }]
DayStartValue(d) ==
    CASE d.form = "offset" -> TextCell(DayPrefix \o OffsetText(d.sign, d.hh, d.mm))
      [] d.form = "naive" -> TextCell(DayPrefix)
      [] d.form = "malformed" -> TextCell(<< "g","a","r","b","a","g","e" >>)
      [] d.form = "nan" -> Nan
      [] d.form = "int" -> IntCell(5)

\* datetime.fromisoformat(ds), line 39: TypeError for what is no string,
\* ValueError for a string that is no timestamp; otherwise whether the
\* timestamp has an offset, and the offset in minutes.
fromisoformat(ds) ==
    IF ds.k # "text" THEN [raised |-> "TypeError", aware |-> FALSE, offset |-> 0]
    ELSE LET s == ds.chars
             z == SubSeq(s, 20, Len(s))
         IN  IF Len(s) < 19 \/ SubSeq(s, 1, 19) # DayPrefix
             THEN [raised |-> "ValueError", aware |-> FALSE, offset |-> 0]
             ELSE IF z = << >> THEN [raised |-> "", aware |-> FALSE, offset |-> 0]
             ELSE IF /\ Len(z) = 6
                     /\ z[1] \in { "+", "-" }
                     /\ \A i \in { 2, 3, 5, 6 } : IsDigit(z[i])
                     /\ z[4] = ":"
                     /\ StrToInt(SubSeq(z, 2, 3)) < 24
                     /\ StrToInt(SubSeq(z, 5, 6)) < 60
             THEN [raised |-> "", aware |-> TRUE,
                   offset |-> (IF z[1] = "-" THEN -1 ELSE 1)
                              * (60 * StrToInt(SubSeq(z, 2, 3)) + StrToInt(SubSeq(z, 5, 6)))]
             ELSE [raised |-> "ValueError", aware |-> FALSE, offset |-> 0]

\* dt.tzname(), line 40, of a timestamp with an offset: 'UTC' for the
\* offset zero, 'UTC+HH:MM' or 'UTC-HH:MM' otherwise.
tzname(offset) ==
    IF offset = 0 THEN << "U","T","C" >>
    ELSE LET a == IF offset < 0 THEN 0 - offset ELSE offset
         IN  << "U","T","C" >>
             \o OffsetText(IF offset < 0 THEN "-" ELSE "+", a \div 60, a % 60)

\* str.split(':')
RECURSIVE Split(_, _)
Split(s, sep) ==
    LET at == { i \in DOMAIN s : s[i] = sep } IN
    IF at = {} THEN << s >>
    ELSE LET i == CHOOSE x \in at : \A y \in at : x <= y
         IN  << SubSeq(s, 1, i - 1) >> \o Split(SubSeq(s, i + 1, Len(s)), sep)

\* int(text), lines 43-44: an optional sign and digits, or ValueError.
PyInt(s) ==
    LET signed == s # << >> /\ s[1] \in { "+", "-" }
        body == IF signed THEN Tail(s) ELSE s
    IN  IF body = << >> \/ \E i \in DOMAIN body : ~IsDigit(body[i])
        THEN [raised |-> TRUE, n |-> 0]
        ELSE [raised |-> FALSE,
              n |-> (IF signed /\ s[1] = "-" THEN -1 ELSE 1) * StrToInt(body)]

\* Lines 38-51 for one row: the entry appended to tz_offset, or the
\* exception that leaves the function (only ValueError is caught).
RowOffset(ds) ==
    LET dt == fromisoformat(ds) IN
    IF dt.raised = "TypeError" THEN [raised |-> "TypeError", v |-> Nan]
    ELSE IF dt.raised = "ValueError" THEN [raised |-> "", v |-> Nan]
    ELSE IF ~dt.aware THEN [raised |-> "TypeError", v |-> Nan]
    ELSE LET tzoffset == SubSeq(tzname(dt.offset), 4, Len(tzname(dt.offset)))
             buff == Split(tzoffset, ":")
             hrs == PyInt(buff[1])
         IN  IF hrs.raised THEN [raised |-> "", v |-> Nan]
             ELSE IF Len(buff) < 2 THEN [raised |-> "IndexError", v |-> Nan]
             ELSE LET mins == PyInt(buff[2])
                  IN  IF mins.raised THEN [raised |-> "", v |-> Nan]
                      ELSE [raised |-> "", v |-> IntCell(hrs.n * 60 + mins.n)]

\* _activity_modifier, lines 29-71, on an export whose summary_date and
\* day_end convert: the offsets of the rows, the conversion of day_start
\* to UTC (a value that does not convert raises inside the try, and the
\* except clause then names ParserError, which is not defined), the
\* renaming, the tzoffset column.  at tells where an exception came from.
activity_modifier(day_start) ==
    LET rows == [i \in DOMAIN day_start |-> RowOffset(day_start[i])]
        bad == { i \in DOMAIN rows : rows[i].raised # "" }
        first == CHOOSE i \in bad : \A j \in bad : i <= j
        tz_offset == [i \in DOMAIN rows |-> rows[i].v]
    IN  IF bad # {}
        THEN [raised |-> rows[first].raised, at |-> "offsets",
              tz_offset |-> SubSeq(tz_offset, 1, first - 1), columns |-> {}]
        ELSE IF \E i \in DOMAIN day_start : fromisoformat(day_start[i]).raised # ""
        THEN [raised |-> "NameError", at |-> "conversion", tz_offset |-> tz_offset,
              columns |-> {}]
        ELSE [raised |-> "", at |-> "", tz_offset |-> tz_offset,
              columns |-> { "summary_date_utc", "day_start_utc", "day_end_utc",
                            "tzoffset" }]

\* _activity_modifier(df) on an export of up to MaxRows rows.
ActivityModifier ==
    /\ cfg = PartsConfig
    /\ pc = "main"
    /\ \E n \in 0..MaxRows : \E day_start \in [1..n -> DayStarts] :
            ing' = [f |-> 1, table_whitelist |-> << >>, specific_pid |-> None,
                    day_start |-> day_start,
                    out |-> activity_modifier([i \in 1..n |-> DayStartValue(day_start[i])])]
    /\ pc' = "activity"
    /\ UNCHANGED << cfg, ctl, cache, hist >>

\* -- GenerateTables.py: the CREATE TABLE statement of a schema file.
\* A text is kept as the sequence of its pieces.
MaxFields == 2
\* The grave accent that quotes a column name (U+0060, which no string of
\* this module can hold).
Grave == "GRAVE ACCENT"

\* The 'default' of a field of a schema file: the key may be missing; its
\* value is null, a string, an integer, a float or a boolean.
NoDefault == [present |-> FALSE, k |-> "none", s |-> "", n |-> 0]
FieldDefaults ==
    { NoDefault, [NoDefault EXCEPT !.present = TRUE] }
    \cup { [present |-> TRUE, k |-> "str", s |-> s, n |-> 0] : s \in { "-inf", "", "n/a" } }
    \cup { [present |-> TRUE, k |-> "int", s |-> "", n |-> n] : n \in { -5, 0, 7 } }
    \cup { [present |-> TRUE, k |-> "float", s |-> "", n |-> 0],
           [present |-> TRUE, k |-> "bool", s |-> "", n |-> 1] }
SchemaFields ==
    { [field_name |-> f[1], suggested_clickhouse_type |-> f[2], default |-> d] :
        f \in { << "pid", "UInt16" >>, << "score", "Float64" >>, << "note", "String" >> },
        d \in FieldDefaults }

\* A variant that renders a string default as the string itself.
DefaultClause_verbatim(default) ==
    IF ~default.present \/ default.k = "none" THEN << >>
    ELSE IF default.k = "str"
    THEN IF default.s = "-inf" THEN << " DEFAULT -inf" >>
         ELSE << " DEFAULT '", default.s, "'" >>
    ELSE IF default.k = "int" THEN << " DEFAULT ", ToString(default.n) >>
    ELSE << >>

\* Lines 78-90: the DEFAULT clause of a field.  A bool is an int to
\* isinstance and is formatted as True or False; a float gets no clause.
DefaultClause(default) ==
    IF ~default.present \/ default.k = "none" THEN << >>
    ELSE IF default.k = "str"
    THEN IF default.s = "-inf" THEN << " DEFAULT -inf" >> ELSE << " DEFAULT ''" >>
    ELSE IF default.k = "int" THEN << " DEFAULT ", ToString(default.n) >>
    ELSE IF default.k = "bool"
    THEN << " DEFAULT ", IF default.n = 1 THEN "True" ELSE "False" >>
    ELSE << >>

\* Lines 72-92: the definition of one field.
FieldDef(field) ==
    << "    ", Grave, field.field_name, Grave, " ", field.suggested_clickhouse_type >>
    \o DefaultClause(field.default)

\* sep.join(parts)
RECURSIVE Join(_, _)
Join(parts, sep) ==
    IF parts = << >> THEN << >>
    ELSE IF Len(parts) = 1 THEN parts[1]
    ELSE parts[1] \o << sep >> \o Join(Tail(parts), sep)

\* generate_create_table_sql, lines 57-112.
generate_create_table_sql(table_name, schema_fields, order_by_fields, database_name) ==
    LET fields == [i \in DOMAIN schema_fields |-> FieldDef(schema_fields[i])]
        order_by_sql ==
            IF Len(order_by_fields) > 0
            THEN << "ORDER BY (" >>
                 \o Join([i \in DOMAIN order_by_fields |->
                             << Grave, order_by_fields[i], Grave >>], ", ")
                 \o << ")" >>
            ELSE << "ORDER BY tuple()" >>
    IN  << "CREATE TABLE IF NOT EXISTS ", database_name, ".", table_name, "\n(\n" >>
        \o Join(fields, ",\n")
        \o << "\n)\nENGINE = MergeTree()\n" >>
        \o order_by_sql

\* One call of generate_create_table_sql on a schema of up to MaxFields
\* fields.
GenerateCreateTable ==
    /\ cfg = PartsConfig
    /\ pc = "main"
    /\ \E n \in 0..MaxFields : \E schema_fields \in [1..n -> SchemaFields] :
       \E order_by_fields \in { << >>, << "pid" >>, << "pid", "score" >> } :
            ing' = [f |-> 1, table_whitelist |-> << >>, specific_pid |-> None,
                    schema_fields |-> schema_fields,
                    sql |-> generate_create_table_sql("temperature", schema_fields,
                                                      order_by_fields, "db")]
    /\ pc' = "ddl"
    /\ UNCHANGED << cfg, ctl, cache, hist >>

\* Lines 163-196 for one file whose table has a modifier in the registry
\* (MODIFIERS is a dict of the module; the program ships it empty).  The
\* modifier gives the batch back or gives None.  With None, line 173 logs
\* and line 175 calls removeSensitive(None), whose df.columns raises
\* AttributeError out of ingestor: no adapter is called and the loop does
\* not go on.
ModifiedFile(csv, pid, rejects) ==
    LET df == InjectPid(csv, pid) IN
    IF rejects
    THEN [logged |-> TRUE, raised |-> "AttributeError", called |-> FALSE,
          goes_on |-> FALSE, sent |-> << >>]
    ELSE [logged |-> FALSE, raised |-> "", called |-> TRUE, goes_on |-> TRUE,
          sent |-> removeSensitive(df)]

\* One pass of the loop in production for a file with a registered
\* modifier.
IngestModified ==
    /\ cfg = PartsConfig
    /\ pc = "main"
    /\ \E csv \in PartBatches, pid \in RouterPids, rejects \in BOOLEAN :
            ing' = [f |-> 1, table_whitelist |-> << >>, specific_pid |-> None,
                    df |-> csv, pid |-> pid, rejected |-> rejects,
                    out |-> ModifiedFile(csv, pid, rejects)]
    /\ pc' = "modified"
    /\ UNCHANGED << cfg, ctl, cache, hist >>

NextParts ==
    \/ RouteFile
    \/ RemoveSensitive
    \/ PrepareBatch
    \/ ActivityModifier
    \/ GenerateCreateTable
    \/ IngestModified

SpecParts == InitParts /\ [][NextParts]_vars

\* =================================================================== Claims
\* What the properties below read off a run, stated on the run's inputs.

\* The table names whitelist.txt lists: its lines without surrounding blanks.
ListedTables ==
    IF cfg.whitelist.none THEN {}
    ELSE { Strip(cfg.whitelist.s[k]) : k \in DOMAIN cfg.whitelist.s }

\* The participant folders of the root, and the file at a position.
Folders == { i \in DOMAIN cfg.root : cfg.root[i].isdir }
FileAt(i, f) == Parsed[cfg.root[i].files[f]]
Positions == { << i, f >> \in Folders \X (1..MaxFiles) : f <= Len(cfg.root[i].files) }

\* The files of a run without --update that match the pattern, are listed
\* and pass the --pid filter.
EligiblePositions ==
    { p \in Positions :
        /\ FileAt(p[1], p[2]).match
        /\ FileAt(p[1], p[2]).table_name \in ListedTables
        /\ (cfg.pid.none \/ FileAt(p[1], p[2]).pid = cfg.pid.s) }

CalledPositions == { << hist.calls[k].folder, hist.calls[k].f >> : k \in DOMAIN hist.calls }

\* ENVIRONMENT is set, and to something other than PRODUCTION.
DryRun ==
    /\ ~cfg.ENVIRONMENT.none
    /\ cfg.ENVIRONMENT.s # << "P","R","O","D","U","C","T","I","O","N" >>

\* The participant ids the files of the tree carry, and those the master
\* table answered with.
DirPids ==
    { StrToInt(FileAt(p[1], p[2]).pid) : p \in { q \in Positions : FileAt(q[1], q[2]).match } }
MasterPids == { hist.master[r] : r \in DOMAIN hist.master }

NothingIngested ==
    /\ hist.inv = << >>
    /\ hist.calls = << >>
    /\ hist.described = {}
    /\ ~hist.wrote

\* ---- C1
\* C1: a file whose parsed table name is not in the loaded whitelist never
\* causes a backend adapter call: every adapter call of a run (lake-table
\* upload, warehouse metadata query or insert) is for a file whose table
\* name whitelist.txt lists.
C1_UnlistedNeverReachesAdapter ==
    /\ \A k \in DOMAIN hist.calls :
          LET c == hist.calls[k]
          IN  /\ FileAt(c.folder, c.f).table_name \in ListedTables
              /\ c.table = FileAt(c.folder, c.f).table_name
    /\ hist.described \subseteq ListedTables
    /\ DOMAIN cache \subseteq ListedTables

\* A production run has just passed over a matching file of an unlisted
\* table without a call, after calling an adapter for a listed one.
C1_Witness ==
    /\ pc = "ingestor"
    /\ ing.f > 1
    /\ IsProduction(cfg.ENVIRONMENT)
    /\ FileAt(ctl.i, ing.f - 1).match
    /\ FileAt(ctl.i, ing.f - 1).table_name \notin ListedTables
    /\ hist.last.adapter = "skip"
    /\ Len(hist.calls) = 1

\* ---- C2
\* C2: with ENVIRONMENT set to anything but PRODUCTION, every file that
\* matches the pattern, is whitelisted and passes the PID filter is
\* reported successful with no error, no file fails, and no backend
\* adapter is ever called.
C2_DryRunCallsNothing ==
    DryRun =>
        /\ hist.calls = << >>
        /\ hist.described = {}
        /\ cache = << >>
        /\ ~hist.wrote
        /\ hist.failedFiles = 0
        /\ (pc = "ingestor" /\ ing.f > 1 =>
               IF << ctl.i, ing.f - 1 >> \in EligiblePositions
               THEN /\ hist.last.adapter = "dryrun"
                    /\ hist.last.status
                    /\ hist.last.err = NoErr
               ELSE hist.last.adapter = "skip")
        /\ (pc = "done" => hist.passed = Cardinality(EligiblePositions))

\* A dry run against the warehouse has ended after reporting two files
\* successful.
C2_Witness ==
    /\ DryRun
    /\ cfg.storage = "clickhouse"
    /\ pc = "done"
    /\ hist.ended = "reported"
    /\ hist.passed >= 2
    /\ hist.last.adapter = "dryrun"

\* ---- C3
\* C3 as stated: whatever the outcomes, a failed metadata query included,
\* no table name is queried for its metadata (DESCRIBE) twice in one run.
C3_DescribeAtMostOnce == hist.twice = {}

\* C3, amended: once the metadata query for a table name has been answered
\* (its schema is cached) no later warehouse adapter call of the run for
\* that table name issues the query again: a call that finds the table in
\* the cache queries nothing, and the cache holds exactly the answered
\* tables.  A query that fails caches nothing, so the next call for the
\* table queries again.
C3_DescribeOnceAnswered ==
    /\ hist.requeried = {}
    /\ DOMAIN cache = hist.answered
    /\ (hist.last.adapter = "clickhouse" /\ hist.last.hit => hist.last.describes = 0)
    /\ (hist.last.adapter = "clickhouse" /\ hist.last.err.kind = "table_missing" =>
            /\ hist.last.describes = 1
            /\ hist.last.table \notin DOMAIN cache)

\* The second warehouse call for a table found its schema in the cache and
\* queried nothing.
C3_Witness ==
    /\ hist.last.adapter = "clickhouse"
    /\ hist.last.hit
    /\ hist.last.describes = 0
    /\ hist.last.table \in hist.answered
    /\ Len(hist.calls) >= 2

\* ---- C4
\* C4: a failure the backend adapter returns for a file does not abort the
\* run: after it the run never crashes, it goes on to the controller's
\* report, and when it is there every eligible file of every folder has
\* been passed to the adapter exactly once.
C4_AfterFailure ==
    hist.failedFiles > 0 =>
        /\ pc # "fatal"
        /\ (pc = "done" =>
               /\ hist.ended = "reported"
               /\ CalledPositions = EligiblePositions
               /\ Len(hist.calls) = Cardinality(EligiblePositions))
C4_FailureDoesNotAbort ==
    /\ []C4_AfterFailure
    /\ (hist.failedFiles > 0 ~> (pc = "done" /\ hist.ended = "reported"))

\* A run of three eligible files has ended at the report; the first two
\* files failed in the adapter and the last one was uploaded.
C4_Witness ==
    /\ pc = "done"
    /\ hist.ended = "reported"
    /\ Len(hist.calls) = 3
    /\ hist.failedFiles = 2
    /\ hist.last.status
    /\ hist.last.adapter \in { "athena", "clickhouse" }

\* ---- C5
\* C5: in update mode, when the run reaches its report, failed_pids is
\* exactly the set of new PIDs with a file that failed to be ingested and
\* successful_pids is exactly the other new PIDs.
C5_FailedPidsAreReported ==
    (pc = "done" /\ hist.ended = "reported") =>
        /\ ctl.failed_pids = hist.failedPids
        /\ ctl.successful_pids = ctl.new_pids \ hist.failedPids

\* ---- C6
\* C6: in update mode the new-PID set is exactly the participant ids found
\* in the directory tree minus the distinct ids of the master table, and
\* when that difference is empty the run ends without an invocation of
\* the ingestor, an adapter call or a write.
C6_NewPidsAreTheDifference ==
    hist.resolved =>
        /\ ctl.new_pids = DirPids \ MasterPids
        /\ (DirPids \ MasterPids = {} => pc = "done" /\ NothingIngested)

\* The tree holds participants and the master table has them all: the run
\* has ended with nothing to do.
C6_Witness ==
    /\ hist.resolved
    /\ DirPids = { 1, 2 }
    /\ MasterPids = { 1, 2 }
    /\ pc = "done"
    /\ hist.ended = "uptodate"

\* ---- C7
\* C7: in update mode nothing is ingested or written before the answer to
\* the confirmation prompt is read, and when the operator declines the run
\* ends with no invocation of the ingestor and no write.
C7_NothingBeforeConfirmation ==
    /\ (hist.confirm = "unread" => NothingIngested)
    /\ (hist.confirm = "declined" => pc = "done" /\ NothingIngested)

\* The operator was shown new PIDs, declined, and the run has ended.
C7_Witness ==
    /\ hist.confirm = "declined"
    /\ hist.ended = "declined"
    /\ ctl.new_pids # {}
    /\ pc = "done"

\* ---- C8
\* C8: in update mode after the confirmation the ingestor is invoked once
\* for every pair of a participant folder and a new PID, with that PID as
\* its filter, and for nothing else; so no file of a participant the
\* master table already has reaches an adapter, and a file that fails
\* does not end the run, which makes all the invocations before it reports.
C8_OneInvocationPerFolderAndNewPid ==
    /\ \A k \in DOMAIN hist.inv :
          /\ hist.confirm = "accepted"
          /\ hist.inv[k].folder \in Folders
          /\ \E p \in DirPids \ MasterPids : hist.inv[k].pid = Some(IntToStr(p))
          /\ \A l \in DOMAIN hist.inv : hist.inv[l] = hist.inv[k] => l = k
    /\ \A k \in DOMAIN hist.calls :
          StrToInt(FileAt(hist.calls[k].folder, hist.calls[k].f).pid) \notin MasterPids
    /\ (hist.failedFiles > 0 => pc # "fatal")
    /\ (pc = "done" /\ hist.confirm = "accepted" =>
          /\ hist.ended = "reported"
          /\ Len(hist.inv) = Cardinality(Folders) * Cardinality(DirPids \ MasterPids))

\* Two folders and two new PIDs: the run has reported after four
\* invocations, some file of which failed and the last of which did not.
C8_Witness ==
    /\ pc = "done"
    /\ hist.ended = "reported"
    /\ Len(hist.inv) = 4
    /\ hist.failedFiles > 0
    /\ hist.last.status

\* ---- C9
\* C9: the lake-table upload never raises, whatever it is called with, an
\* empty or absent S3 path included: it returns (True, None) or (False,
\* message).
C9_LakeUploadNeverRaises ==
    hist.last.adapter = "athena" =>
        /\ ~hist.last.raised
        /\ (hist.last.status <=> hist.last.err = NoErr)

\* ---- C10
\* C10: every call of the warehouse adapter returns (True, None) or
\* (False, message): an absent client, a failed metadata query, a column
\* of the schema the batch lacks, a timestamp that cannot be converted and
\* a failed insert each give (False, message); a failed metadata query
\* leaves the table out of the cache and issues no insert.
C10_WarehouseAlwaysReturns ==
    hist.last.adapter = "clickhouse" =>
        LET l == hist.last
            in == l.inputs
            batch == LibBatches[in.df]
            failed == ~l.status /\ l.err # NoErr
        IN  /\ ~l.raised
            /\ (l.status <=> l.err = NoErr)
            /\ (~in.client => failed /\ l.describes = 0 /\ l.inserts = 0)
            /\ (in.client /\ ~l.hit /\ ~in.describeOk =>
                    /\ failed
                    /\ l.inserts = 0
                    /\ l.table \notin DOMAIN cache)
            /\ (in.client /\ l.table \in DOMAIN cache =>
                    /\ ((\E c \in SchemaNames(cache[l.table]) \ { "tzoffset" } :
                            ~HasCol(batch, c)) => failed /\ l.inserts = 0)
                    /\ (("timestamp" \in SchemaNames(cache[l.table])
                         /\ HasCol(batch, "timestamp")
                         /\ \E r \in 1..NRows(batch) :
                                ColVals(batch, "timestamp")[r].k = "str")
                          => failed /\ l.inserts = 0))
            /\ (l.inserts = 1 /\ ~in.insertOk => failed)
            /\ (l.inserts = 1 /\ in.insertOk => l.status)

\* The metadata query of a call with a client has failed: the call
\* returned False and the table is not in the cache.
C10_Witness ==
    /\ hist.last.adapter = "clickhouse"
    /\ hist.last.inputs.client
    /\ ~hist.last.inputs.describeOk
    /\ ~hist.last.hit
    /\ hist.last.describes = 1
    /\ ~hist.last.status
    /\ hist.last.table \notin DOMAIN cache

\* ---- C11
\* The schema the last warehouse call worked with, and the batch it was
\* called with.
LastSchema == SchemaNames(cache[hist.last.table])
LastBatch == LibBatches[hist.last.inputs.df]
LastKnowsSchema ==
    /\ hist.last.adapter = "clickhouse"
    /\ hist.last.inputs.client
    /\ hist.last.table \in DOMAIN cache

\* C11 as stated: when a column of the cached schema is absent from the
\* batch the adapter is called with, the call fails and issues no insert.
C11_MissingColumnFails ==
    (LastKnowsSchema /\ \E c \in LastSchema : ~HasCol(LastBatch, c)) =>
        /\ ~hist.last.status
        /\ hist.last.inserts = 0

\* C11, amended: the batch the adapter inserts has every column of the
\* cached schema; a schema column other than a tzoffset the adapter can
\* derive itself (from a timezone-aware temporal column earlier in the
\* schema) that the batch lacks makes the call fail with no insert; and
\* the column-missing error names a schema column the batch lacks, and the
\* table.
C11_InsertHasEverySchemaColumn ==
    LastKnowsSchema =>
        /\ (hist.last.inserts = 1 => LastSchema \subseteq hist.last.sent)
        /\ ((\E c \in LastSchema \ { "tzoffset" } : ~HasCol(LastBatch, c)) =>
                /\ ~hist.last.status
                /\ hist.last.err # NoErr
                /\ hist.last.inserts = 0)
        /\ (("tzoffset" \in LastSchema /\ ~HasCol(LastBatch, "tzoffset")
             /\ \A i \in DOMAIN LastBatch : \A r \in DOMAIN LastBatch[i].vals :
                    ~LastBatch[i].vals[r].aware) =>
                /\ ~hist.last.status
                /\ hist.last.inserts = 0)
        /\ (hist.last.err.kind = "column_missing" =>
                /\ ~hist.last.status
                /\ hist.last.inserts = 0
                /\ hist.last.err.column \in LastSchema
                /\ ~HasCol(LastBatch, hist.last.err.column)
                /\ hist.last.err.table = hist.last.table)

\* A call found the table's schema in the cache and failed on a column the
\* batch lacks, with no insert.
C11_Witness ==
    /\ LastKnowsSchema
    /\ hist.last.hit
    /\ hist.last.err.kind = "column_missing"
    /\ hist.last.inserts = 0

\* ---- C12
\* C12: every name matching the pattern (case-insensitively) is given a
\* table name that is group 1 in lower case with hyphens replaced by
\* underscores, and the integer of group 4 as participant id; every other
\* name is passed over with a warning and is not read.
C12_RouterNormalisesNames ==
    pc = "routed" =>
        IF RegexMatch(ing.filename)
        THEN /\ ing.m.match
             /\ ing.outcome # "warned"
             /\ ing.m.table_name = Replace(Lower(Group1(ing.filename)), "-", "_")
             /\ StrToInt(ing.m.pid) = StrToInt(Group4(ing.filename))
        ELSE /\ ~ing.m.match
             /\ ing.outcome = "warned"

\* ---- C13
\* C13: with a PID filter, a matched and whitelisted file is read exactly
\* when its participant id, as an integer, equals the filter's.
C13_FilterComparesIntegers ==
    (/\ pc = "routed"
     /\ ing.m.match
     /\ InWhitelist(ing.m.table_name, ing.table_whitelist)
     /\ ~ing.specific_pid.none) =>
        (ing.outcome = "read" <=> StrToInt(ing.m.pid) = StrToInt(ing.specific_pid.s))

\* ---- C14
\* The placeholder each sensitive column is filled with.
Placeholder(col) ==
    CASE col = "email" -> StrCell("foo@bar.org")
      [] col = "group" -> StrCell("g1")
      [] col = "name" -> StrCell("john doe")
      [] col = "participant_id" -> StrCell("000-0000")
IsPlaceholderColumn(c) == \A r \in DOMAIN c.vals : c.vals[r] = Placeholder(c.name)

\* C14: de-identifying a batch twice gives the same batch as once: the
\* same columns, with the placeholders in email, group, name and
\* participant_id.
C14_RemoveSensitiveIdempotent ==
    pc = "deidentified" =>
        /\ ing.twice = ing.once
        /\ \A i \in DOMAIN ing.twice :
              ing.twice[i].name \in SensitiveColumns => IsPlaceholderColumn(ing.twice[i])

\* A batch with rows and two sensitive columns was de-identified twice.
C14_Witness ==
    /\ pc = "deidentified"
    /\ NRows(ing.df) = MaxRows
    /\ { "email", "participant_id" } \subseteq ColNames(ing.df)
    /\ ing.once # ing.df
    /\ ing.twice = ing.once

\* ---- C15
\* C15: de-identification keeps the batch's columns, their order and the
\* number of rows, leaves every other column's values as they were, fills
\* the sensitive columns that are present with their placeholders, and
\* adds no column.
C15_RemoveSensitiveFrame ==
    pc = "deidentified" =>
        /\ Len(ing.once) = Len(ing.df)
        /\ NRows(ing.once) = NRows(ing.df)
        /\ \A i \in DOMAIN ing.df :
              /\ ing.once[i].name = ing.df[i].name
              /\ Len(ing.once[i].vals) = Len(ing.df[i].vals)
              /\ IF ing.df[i].name \in SensitiveColumns
                 THEN IsPlaceholderColumn(ing.once[i])
                 ELSE ing.once[i].vals = ing.df[i].vals

\* A batch with rows, with some sensitive columns and without others, and
\* with other columns, was de-identified.
C15_Witness ==
    /\ pc = "deidentified"
    /\ NRows(ing.df) = MaxRows
    /\ ColNames(ing.df) = { "email", "name", "timestamp", "score" }
    /\ ColNames(ing.once) = ColNames(ing.df)
    /\ ColVals(ing.once, "email") # ColVals(ing.df, "email")
    /\ ColVals(ing.once, "timestamp") = ColVals(ing.df, "timestamp")

\* ---- C16
\* C16: a temperature file with the columns email, group, name,
\* participant_id and timestamp reaches the backend adapter as a batch of
\* exactly timestamp_utc and pid, pid holding the file's participant id in
\* every row, and with no sensitive column left with the file's values.
C16_TemperatureBatchColumns ==
    (/\ pc = "prepared"
     /\ ing.table_name = T_temperature
     /\ ColNames(ing.df) = SensitiveColumns \cup { "timestamp" }) =>
        /\ ColNames(ing.sent) = { "timestamp_utc", "pid" }
        /\ ColVals(ing.sent, "pid") = Broadcast(ing.df, IntCell(StrToInt(ing.pid)))
        /\ \A c \in SensitiveColumns :
              HasCol(ing.sent, c) /\ NRows(ing.df) > 0 =>
                  ColVals(ing.sent, c) # ColVals(ing.df, c)

\* ---- C17
\* C17: whenever the activity modifier returns, the tzoffset of every
\* row whose day_start has an offset sign HH:MM is sign x (60 x HH + MM).
C17_OffsetInSignedMinutes ==
    (pc = "activity" /\ ing.out.raised = "") =>
        \A i \in DOMAIN ing.day_start :
            ing.day_start[i].form = "offset" =>
                ing.out.tz_offset[i] =
                    IntCell((IF ing.day_start[i].sign = "-" THEN -1 ELSE 1)
                            * (60 * ing.day_start[i].hh + ing.day_start[i].mm))

\* ---- C18
\* C18: the offset extraction of the activity modifier raises nothing and
\* leaves one entry for every row, a missing value for each row whose
\* day_start is no timestamp with an offset.
C18_OffsetExtractionNeverRaises ==
    pc = "activity" =>
        /\ ing.out.at # "offsets"
        /\ Len(ing.out.tz_offset) = Len(ing.day_start)
        /\ \A i \in DOMAIN ing.day_start :
              ing.day_start[i].form # "offset" => ing.out.tz_offset[i] = Nan

\* ---- C19
\* C19: the whitelist the ingestor works with is the lines of
\* whitelist.txt that are not blank, trimmed, in file order; the empty
\* string is not in it.
C19_WhitelistIsNonBlankLines ==
    pc = "ingestor" =>
        /\ ing.table_whitelist =
              SelectSeq([i \in DOMAIN cfg.whitelist.s |-> Strip(cfg.whitelist.s[i])],
                        LAMBDA line : line # << >>)
        /\ ~InWhitelist(<< >>, ing.table_whitelist)

\* ---- C20
\* C20: a run without whitelist.txt connects to no backend, asks and
\* resolves nothing for the update, enters no participant folder and does
\* not reach its end.
C20_MissingWhitelistAborts ==
    cfg.whitelist.none =>
        /\ ctl.client = None
        /\ hist.master = << >>
        /\ ~hist.resolved
        /\ hist.confirm = "unread"
        /\ hist.inv = << >>
        /\ pc # "done"

\* ---- C21
\* C21: a run whose root is no directory resolves no update set, enters
\* neither the confirmation nor the loop over the folders, and does not
\* end as a completed run.
C21_InvalidRootAborts ==
    ~cfg.dirExists =>
        /\ ~hist.resolved
        /\ pc \notin { "confirm", "loop", "done" }

\* ---- C22
\* The field definitions of a CREATE TABLE statement: what stands between
\* the opening and the closing parenthesis, cut at the separators.
SqlOpen(sql) == CHOOSE i \in DOMAIN sql : sql[i] = "\n(\n"
SqlClose(sql) == CHOOSE i \in DOMAIN sql : sql[i] = "\n)\nENGINE = MergeTree()\n"
SqlFieldDefs(sql) == Split(SubSeq(sql, SqlOpen(sql) + 1, SqlClose(sql) - 1), ",\n")

\* C22: the statement has one definition for every field of the schema, in
\* schema order, and the definition of a field has no DEFAULT clause when
\* the default is absent or null, DEFAULT -inf when it is the string
\* '-inf', DEFAULT '' for every other string, and DEFAULT with the number
\* for an integer.
C22_DefaultClauses ==
    (pc = "ddl" /\ ing.schema_fields # << >>) =>
        /\ Len(SqlFieldDefs(ing.sql)) = Len(ing.schema_fields)
        /\ \A i \in DOMAIN ing.schema_fields :
              LET field == ing.schema_fields[i]
                  def == SqlFieldDefs(ing.sql)[i]
                  clause == SubSeq(def, 7, Len(def))
              IN  /\ SubSeq(def, 1, 6) = << "    ", Grave, field.field_name, Grave, " ",
                                            field.suggested_clickhouse_type >>
                  /\ (~field.default.present \/ field.default.k = "none") => clause = << >>
                  /\ (field.default.present /\ field.default.k = "str") =>
                        clause = IF field.default.s = "-inf" THEN << " DEFAULT -inf" >>
                                 ELSE << " DEFAULT ''" >>
                  /\ (field.default.present /\ field.default.k = "int") =>
                        clause = << " DEFAULT ", ToString(field.default.n) >>

\* A statement was made for a schema whose first field has a string
\* default other than '-inf' and whose last has a negative integer default.
C22_Witness ==
    /\ pc = "ddl"
    /\ Len(ing.schema_fields) = MaxFields
    /\ ing.schema_fields[1].default.k = "str"
    /\ ing.schema_fields[1].default.s = "n/a"
    /\ ing.schema_fields[MaxFields].default.k = "int"
    /\ ing.schema_fields[MaxFields].default.n < 0
    /\ Len(SqlFieldDefs(ing.sql)) = MaxFields

\* ---- C23
\* C23: when the modifier registered for a file's table gives no result,
\* the failure is logged, no backend adapter is called for the file,
\* nothing is raised and the loop goes on to the next file.
C23_RejectedBatchIsSkipped ==
    (pc = "modified" /\ ing.rejected) =>
        /\ ing.out.logged
        /\ ~ing.out.called
        /\ ing.out.raised = ""
        /\ ing.out.goes_on

\* ---- C24
\* C24: when a day_start of the export does not convert to a timestamp,
\* the activity modifier returns without a result and raises nothing.
C24_UnconvertibleReturnsNone ==
    (/\ pc = "activity"
     /\ ing.out.at # "offsets"
     /\ \E i \in DOMAIN ing.day_start : ing.day_start[i].form = "malformed") =>
        /\ ing.out.raised = ""
        /\ ing.out.columns = {}

\* ---- C25
\* The temporal columns of the schema the last call worked with that hold
\* a timezone-aware value in the batch it was called with.
AwareColumns ==
    { i \in DOMAIN cache[hist.last.table] :
        /\ IsTemporalType(cache[hist.last.table][i].type)
        /\ HasCol(LastBatch, cache[hist.last.table][i].name)
        /\ \E r \in 1..NRows(LastBatch) :
              ColVals(LastBatch, cache[hist.last.table][i].name)[r].aware }
\* The offsets of the rows of a column of the batch, in minutes.
OffsetsOf(name) ==
    [r \in 1..NRows(LastBatch) |->
        IF ColVals(LastBatch, name)[r].k = "nan" THEN Nan
        ELSE IntCell(ColVals(LastBatch, name)[r].n)]
TzCase == LastKnowsSchema /\ "tzoffset" \in LastSchema /\ AwareColumns # {}

\* C25 as stated: with a tzoffset column in the cached schema and
\* timezone-aware values in a temporal column, the call does not fail for
\* want of a tzoffset column, wherever tzoffset stands in the schema and
\* whether or not the batch came with one, and the batch it inserts has
\* the rows' offsets in minutes as tzoffset.
C25_TzoffsetAtEveryPosition ==
    TzCase =>
        /\ ~(hist.last.err.kind = "column_missing" /\ hist.last.err.column = "tzoffset")
        /\ hist.last.inserts = 1 =>
              \E i \in AwareColumns : hist.last.tz = OffsetsOf(cache[hist.last.table][i].name)

\* C25, amended: with a tzoffset column in the cached schema and
\* timezone-aware values in a temporal column, the batch the adapter
\* inserts has the rows' offsets in minutes as tzoffset (nothing for a row
\* without timestamp), whatever tzoffset the batch came with; a batch that
\* comes without tzoffset is refused, with nothing inserted, exactly when
\* tzoffset stands in the schema before every such temporal column.
C25_InsertedTzoffsetIsDerived ==
    TzCase =>
        /\ hist.last.inserts = 1 =>
              \E i \in AwareColumns : hist.last.tz = OffsetsOf(cache[hist.last.table][i].name)
        /\ (hist.last.err.kind = "column_missing" /\ hist.last.err.column = "tzoffset") =>
              /\ hist.last.inserts = 0
              /\ ~HasCol(LastBatch, "tzoffset")
              /\ \A i \in AwareColumns :
                    \E j \in 1..(i - 1) : cache[hist.last.table][j].name = "tzoffset"
        /\ (/\ ~HasCol(LastBatch, "tzoffset")
            /\ \A i \in AwareColumns :
                  \E j \in 1..(i - 1) : cache[hist.last.table][j].name = "tzoffset") =>
              /\ ~hist.last.status
              /\ hist.last.inserts = 0

\* A batch that came with a tzoffset of zeros was inserted with the
\* offsets of its timestamps instead.
C25_Witness ==
    /\ TzCase
    /\ hist.last.inserts = 1
    /\ HasCol(LastBatch, "tzoffset")
    /\ hist.last.tz # ColVals(LastBatch, "tzoffset")
    /\ hist.last.tz = OffsetsOf("timestamp")

\* ---- C26
\* C26: no adapter call removes or changes an entry of the schema cache;
\* an entry is added only for the table of a call whose metadata query
\* was answered; and a call for a cached table issues no metadata query,
\* leaves the cache as it is and, when it inserts, inserts a batch with
\* the columns of the cached schema.
C26_CacheGrowOnly ==
    [][ /\ \A t \in DOMAIN cache : t \in DOMAIN cache' /\ cache'[t] = cache[t]
        /\ \A t \in DOMAIN cache' \ DOMAIN cache :
              /\ hist'.last.adapter = "clickhouse"
              /\ hist'.last.table = t
              /\ hist'.last.describes = 1
              /\ hist'.last.inputs.describeOk
        /\ (/\ hist'.last.adapter = "clickhouse"
            /\ hist'.last.inputs.client
            /\ hist'.last.table \in DOMAIN cache) =>
              /\ hist'.last.hit
              /\ hist'.last.describes = 0
              /\ cache' = cache
              /\ hist'.last.inserts = 1 =>
                    SchemaNames(cache[hist'.last.table]) \subseteq hist'.last.sent
      ]_vars

\* Two tables were cached one after the other, the second by a call that
\* left the first one's entry in place.
C26_Witness ==
    /\ Len(hist.calls) = 2
    /\ hist.calls[1].table # hist.calls[2].table
    /\ DOMAIN cache = { hist.calls[1].table, hist.calls[2].table }
    /\ hist.last.describes = 1

\* ---- C27
\* The files the run has been through: those of the folders before the
\* current one and, inside an invocation, those before the current file.
PassedPositions ==
    { p \in Positions :
        \/ p[1] < ctl.i
        \/ (pc = "ingestor" /\ p[1] = ctl.i /\ p[2] < ing.f) }

\* C27: in a production run with the athena or the clickhouse backend
\* the adapter calls are, in the order of the listings, one for every
\* file gone through that matches the pattern, is whitelisted and passes
\* the PID filter, each to the adapter the storage option names and with
\* the table name of the file; no other file causes a call.
C27_OneCallPerEligibleFile ==
    (/\ IsProduction(cfg.ENVIRONMENT)
     /\ cfg.storage \in { "athena", "clickhouse" }
     /\ pc \in { "loop", "ingestor", "done" }) =>
        /\ \A k \in DOMAIN hist.calls :
              /\ hist.calls[k].adapter = cfg.storage
              /\ hist.calls[k].table = FileAt(hist.calls[k].folder, hist.calls[k].f).table_name
        /\ \A k, l \in DOMAIN hist.calls :
              k < l => \/ hist.calls[k].folder < hist.calls[l].folder
                       \/ /\ hist.calls[k].folder = hist.calls[l].folder
                          /\ hist.calls[k].f < hist.calls[l].f
        /\ CalledPositions = EligiblePositions \cap PassedPositions
        /\ hist.ended = "reported" => CalledPositions = EligiblePositions

\* A production run with a --pid filter has ended: it called the adapter
\* for the one file that passed the three gates and for none of the file
\* of another participant, the unlisted file and the misnamed file.
C27_Witness ==
    /\ pc = "done"
    /\ hist.ended = "reported"
    /\ IsProduction(cfg.ENVIRONMENT)
    /\ cfg.storage = "athena"
    /\ ~cfg.pid.none
    /\ Cardinality(Positions) = MaxFolders * MaxFiles
    /\ \E p \in Positions : ~FileAt(p[1], p[2]).match
    /\ hist.warned = 1
    /\ \E p \in Positions :
          FileAt(p[1], p[2]).match /\ FileAt(p[1], p[2]).table_name \notin ListedTables
    /\ \E p \in Positions :
          /\ FileAt(p[1], p[2]).match
          /\ FileAt(p[1], p[2]).table_name \in ListedTables
          /\ FileAt(p[1], p[2]).pid # cfg.pid.s
    /\ Len(hist.calls) = 1
    /\ CalledPositions = EligiblePositions

====
